---- MODULE Spec2Model ----
(***************************************************************************)
(* Model of the power quadrant demo (src/src/power_quadrant_demo):         *)
(* model.py (VersatileVar, ModelledWaveforms, PowerStateVariables, Model), *)
(* main.py (Controller) and view.py (the three views).                     *)
(*                                                                         *)
(* Numbers.  A Python float is modelled in fixed point: the integer v      *)
(* stands for v / Unit, so 1.0 is 1000, an angle is in milliradians and    *)
(* pi is 3142.  A library function (np.cos, np.sin, np.arctan2, np.angle,  *)
(* np.abs, **0.5) is its value rounded to that resolution; a result that   *)
(* is not zero but smaller than the resolution is kept as +-1 so that its  *)
(* sign survives, as it does in floating point (np.sin(np.pi) = 1.2e-16 is *)
(* positive).  Angles are rounded to multiples of pi/12.                   *)
(***************************************************************************)
EXTENDS Integers, Sequences, FiniteSets, TLC

\* The fixed-point representation of the float 1.0.
Unit == 1000

\* model.py:12, SQRT_TWO = 2 ** 0.5
SQRT_TWO == 1414

\* model.py:204, the modulus of the state count.
COUNT_MODULUS == 255

\* model.py:69, the number of rows of the waveform table.
NUM_SAMPLES == 100

\* view.py:145, the limits of the quadrant axes: a pointer event inside the
\* axes has its data coordinates within [-AXIS_LIMIT, AXIS_LIMIT].
AXIS_LIMIT == 1400

----------------------------------------------------------------------------
(* Bounds of the exploration.                                              *)

\* The number of input events of a run of Spec.
MaxEvents == 2

----------------------------------------------------------------------------
(* Fixed-point arithmetic.                                                 *)

Abs(v) == IF v < 0 THEN -v ELSE v

\* np.sign
Sign(v) == IF v > 0 THEN 1 ELSE IF v < 0 THEN -1 ELSE 0

\* n / d rounded to the nearest integer, halves away from zero.
RoundDiv(n, d) == Sign(n) * ((2 * Abs(n) + d) \div (2 * d))

\* The float product a * b.
Mul(a, b) == RoundDiv(a * b, Unit)

\* The float quotient a / b (b # 0).
Div(a, b) == Sign(b) * RoundDiv(a * Unit, Abs(b))

RECURSIVE SqrtSearch(_, _, _)
SqrtSearch(n, lo, hi) ==
    IF lo >= hi THEN lo
    ELSE LET mid == (lo + hi + 1) \div 2
         IN  IF mid * mid - mid < n THEN SqrtSearch(n, mid, hi)
             ELSE SqrtSearch(n, lo, mid - 1)

\* n ** 0.5 for n >= 0, rounded to the nearest integer.
Sqrt(n) == SqrtSearch(n, 0, 4 * Unit)

\* The angles k * pi / 12 in milliradians, k in -24 .. 24.
TickAngle ==
    [k \in -24..24 |-> RoundDiv(k * 3141593, 12000)]

\* cos(k * pi / 12) and sin(k * pi / 12) for k = -24 .. 24, as floating point
\* gives them (cos(pi/2) is a positive residue, sin(pi) too).
CosTable ==
    << 1000, 966, 866, 707, 500, 259, -1, -259, -500, -707, -866, -966,
       -1000, -966, -866, -707, -500, -259, 1, 259, 500, 707, 866, 966,
       1000, 966, 866, 707, 500, 259, 1, -259, -500, -707, -866, -966,
       -1000, -966, -866, -707, -500, -259, -1, 259, 500, 707, 866, 966,
       1000 >>

SinTable ==
    << 1, 259, 500, 707, 866, 966, 1000, 966, 866, 707, 500, 259,
       -1, -259, -500, -707, -866, -966, -1000, -966, -866, -707, -500, -259,
       0, 259, 500, 707, 866, 966, 1000, 966, 866, 707, 500, 259,
       1, -259, -500, -707, -866, -966, -1000, -966, -866, -707, -500, -259,
       -1 >>

\* The multiple of pi/12 nearest to the angle a.
Tick(a) == RoundDiv(a * 12000, 3141593)

\* np.cos, np.sin
Cos(a) == CosTable[Tick(a) + 25]
Sin(a) == SinTable[Tick(a) + 25]

\* np.arctan2(y, x), in (-pi, pi]: the direction nearest to (x, y);
\* arctan2(0, 0) = 0.
ArcTan2(y, x) ==
    IF x = 0 /\ y = 0 THEN 0
    ELSE LET dot(k) == x * CosTable[k + 25] + y * SinTable[k + 25]
             best == CHOOSE k \in -11..12 : \A j \in -11..12 : dot(k) >= dot(j)
         IN  TickAngle[best]

----------------------------------------------------------------------------
(* Complex numbers, as records [re, im].                                   *)

\* cmath.rect(1., angle)
Rect(angle) == [re |-> Cos(angle), im |-> Sin(angle)]

\* The product of a real and a complex number.
CScale(a, z) == [re |-> Mul(a, z.re), im |-> Mul(a, z.im)]

\* model.py:15-16
create_phasor(amplitude, angle) == CScale(amplitude, Rect(angle))

\* np.abs of a complex number
CAbs(z) == Sqrt(z.re * z.re + z.im * z.im)

\* np.angle of a complex number
CAngle(z) == ArcTan2(z.im, z.re)

\* phi_to_pf with the sign of zero taken as positive.
phi_to_pf_ZeroIsPositive(phi, sign_convention) ==
    LET pf == Cos(phi)
    IN  IF sign_convention = "EEI"
        THEN Mul(pf, -(IF Sin(phi) >= 0 THEN 1 ELSE -1) * Unit)
        ELSE pf

\* model.py:19-26
phi_to_pf(phi, sign_convention) ==
    LET pf == Cos(phi)
    IN  IF sign_convention = "EEI" THEN Mul(pf, -Sign(Sin(phi)) * Unit) ELSE pf

\* VersatileVar.str_format, '{:z.2f}' (model.py:38): the value to two
\* decimals, as the integer number of hundredths; the z flag prints a
\* negative zero as zero.
Format(value) == RoundDiv(value, 10)

----------------------------------------------------------------------------
(* The waveform table, model.py:58-87.                                     *)

Samples == 1..NUM_SAMPLES

\* The time column with the end point left out, np.linspace(..., endpoint=False).
TimeColumn_HalfOpen ==
    [k \in Samples |-> RoundDiv(-10 * Unit * NUM_SAMPLES + (k - 1) * 40 * Unit,
                                NUM_SAMPLES)]

\* model.py:69, np.linspace(MIN_TIME, MAX_TIME, 100), in microseconds.
TimeColumn ==
    [k \in Samples |-> RoundDiv(-10 * Unit * (NUM_SAMPLES - 1) + (k - 1) * 40 * Unit,
                                NUM_SAMPLES - 1)]

\* model.py:70, np.exp(1j * OMEGA * time): real and imaginary parts.
PhaseRe ==
    << -1000, -992, -968, -928, -874, -805, -724, -631, -527, -415,
       -297, -174, -48, 79, 205, 327, 444, 554, 655, 745,
       824, 889, 940, 975, 995, 999, 987, 959, 916, 858,
       786, 701, 606, 500, 386, 266, 142, 16, -111, -236,
       -357, -472, -580, -679, -766, -841, -903, -950, -982, -998,
       -998, -982, -950, -903, -841, -766, -679, -580, -472, -357,
       -236, -111, 16, 142, 266, 386, 500, 606, 701, 786,
       858, 916, 959, 987, 999, 995, 975, 940, 889, 824,
       745, 655, 554, 444, 327, 205, 79, -48, -174, -297,
       -415, -527, -631, -724, -805, -874, -928, -968, -992, -1000 >>

PhaseIm ==
    << -1, -127, -251, -372, -486, -593, -690, -776, -850, -910,
       -955, -985, -999, -997, -979, -945, -896, -833, -756, -667,
       -567, -458, -342, -220, -95, 32, 158, 282, 401, 514,
       618, 713, 796, 866, 922, 964, 990, 1000, 994, 972,
       934, 881, 815, 735, 643, 541, 430, 312, 189, 63,
       -63, -189, -312, -430, -541, -643, -735, -815, -881, -934,
       -972, -994, -1000, -990, -964, -922, -866, -796, -713, -618,
       -514, -401, -282, -158, -32, 95, 220, 342, 458, 567,
       667, 756, 833, 896, 945, 979, 997, 999, 985, 955,
       910, 850, 776, 690, 593, 486, 372, 251, 127, 1 >>

PhaseColumn == [k \in Samples |-> [re |-> PhaseRe[k], im |-> PhaseIm[k]]]

\* np.real(z * phase) for one sample.
RealOfProduct(z, phase) == RoundDiv(z.re * phase.re - z.im * phase.im, Unit)

\* ModelledWaveforms.refresh with the reactive current in phase with the
\* active current: np.real(np.imag(current_phasor) * phase), without the 1j.
WaveformsRefresh_NoQuadrature(waveforms, rms_voltage_phasor, rms_current_phasor) ==
    LET voltage_phasor == CScale(SQRT_TWO, rms_voltage_phasor)
        current_phasor == CScale(SQRT_TWO, rms_current_phasor)
        phase == waveforms.phase
        voltage == [k \in Samples |-> RealOfProduct(voltage_phasor, phase[k])]
        current == [k \in Samples |-> RealOfProduct(current_phasor, phase[k])]
        active_current ==
            [k \in Samples |->
                RealOfProduct([re |-> current_phasor.re, im |-> 0], phase[k])]
        reactive_current ==
            [k \in Samples |->
                RealOfProduct([re |-> current_phasor.im, im |-> 0], phase[k])]
    IN  [waveforms EXCEPT
            !.voltage = voltage,
            !.current = current,
            !.active_current = active_current,
            !.reactive_current = reactive_current,
            !.summed_current =
                [k \in Samples |-> active_current[k] + reactive_current[k]],
            !.active_power =
                [k \in Samples |-> Mul(voltage[k], active_current[k])],
            !.reactive_power =
                [k \in Samples |-> Mul(voltage[k], reactive_current[k])],
            !.apparent_power =
                [k \in Samples |-> Mul(voltage[k], current[k])]]

\* ModelledWaveforms.refresh, model.py:74-87: the eight computed columns are
\* assigned, 'time' and 'phase' are read.
WaveformsRefresh(waveforms, rms_voltage_phasor, rms_current_phasor) ==
    LET voltage_phasor == CScale(SQRT_TWO, rms_voltage_phasor)
        current_phasor == CScale(SQRT_TWO, rms_current_phasor)
        phase == waveforms.phase
        voltage == [k \in Samples |-> RealOfProduct(voltage_phasor, phase[k])]
        current == [k \in Samples |-> RealOfProduct(current_phasor, phase[k])]
        active_current ==
            [k \in Samples |->
                RealOfProduct([re |-> current_phasor.re, im |-> 0], phase[k])]
        \* np.real(np.imag(current_phasor) * phase * 1j)
        reactive_current ==
            [k \in Samples |->
                RealOfProduct([re |-> 0, im |-> current_phasor.im], phase[k])]
    IN  [waveforms EXCEPT
            !.voltage = voltage,
            !.current = current,
            !.active_current = active_current,
            !.reactive_current = reactive_current,
            !.summed_current =
                [k \in Samples |-> active_current[k] + reactive_current[k]],
            !.active_power =
                [k \in Samples |-> Mul(voltage[k], active_current[k])],
            !.reactive_power =
                [k \in Samples |-> Mul(voltage[k], reactive_current[k])],
            !.apparent_power =
                [k \in Samples |-> Mul(voltage[k], current[k])]]

\* ModelledWaveforms.__init__, model.py:63-72.
WaveformsInit(rms_voltage_phasor, rms_current_phasor) ==
    LET empty == [k \in Samples |-> 0]
    IN  WaveformsRefresh(
            [time |-> TimeColumn, phase |-> PhaseColumn,
             voltage |-> empty, current |-> empty,
             active_current |-> empty, reactive_current |-> empty,
             summed_current |-> empty, active_power |-> empty,
             reactive_power |-> empty, apparent_power |-> empty],
            rms_voltage_phasor, rms_current_phasor)

----------------------------------------------------------------------------
(* The state.                                                              *)

VARIABLES
    float_var,              \* VersatileVar.float_var of each state variable
    str_var,                \* VersatileVar.str_var of each state variable
    pf_sign_convention,     \* PowerStateVariables.pf_sign_convention
    waveforms,              \* ModelledWaveforms.waveforms, a record of columns
    state_count,            \* Model.state_count
    view_trace,             \* whether main.py:34 has registered View.refresh
    gui_instances,          \* MyFrame.gui_instances, in its iteration order
    transient_plot_objects, \* GraphBlock.transient_plot_objects of each graph
    axes_artists,           \* the artists on the axes of each graph, by kind
    button_held,            \* QuadrantViewer._button_held
    log,                    \* the writes and refreshes of the last handler, in order
    refreshed,              \* how often each view was refreshed by the last handler
    event,                  \* the last input event
    before,                 \* the scalar fields as they were before the last event
    events,                 \* the number of input events so far, in Spec
    power_quadrants_gui     \* the program of power_quadrant_gui.py

vars == << float_var, str_var, pf_sign_convention, waveforms, state_count,
           view_trace, gui_instances, transient_plot_objects, axes_artists,
           button_held,
           log, refreshed, event, before, events, power_quadrants_gui >>

\* The VersatileVars of PowerStateVariables, model.py:95-108.
VarNames ==
    {"apparent_power", "power_angle", "voltage_rms", "voltage_angle",
     "current_rms", "current_angle", "impedance",
     "cos_phi", "power_factor", "active_power", "reactive_power"}

Conventions == {"EEI", "IEC"}

Views == {"QuadrantViewer", "GraphOptionsPane", "WaveformViewer"}

\* The objects a handler works on, as one record.
World ==
    [float_var |-> float_var, str_var |-> str_var,
     pf_sign_convention |-> pf_sign_convention, waveforms |-> waveforms,
     state_count |-> state_count, view_trace |-> view_trace,
     gui_instances |-> gui_instances,
     transient_plot_objects |-> transient_plot_objects,
     axes_artists |-> axes_artists,
     button_held |-> button_held, log |-> log, refreshed |-> refreshed]

\* model.py:110-112 and 119-121
voltage_phasor(w) ==
    create_phasor(w.float_var["voltage_rms"], w.float_var["voltage_angle"])
current_phasor(w) ==
    create_phasor(w.float_var["current_rms"], w.float_var["current_angle"])

----------------------------------------------------------------------------
(* The views, view.py.                                                     *)

\* QuadrantViewer.create_temporary_objects, view.py:163-202: the artists it
\* appends, each with the data it was created from.
QuadrantCreateTemporaryObjects(w) ==
    LET apparent_power ==
            Mul(w.float_var["voltage_rms"], w.float_var["current_rms"])
        power_angle == w.float_var["power_angle"]
        arc_radius == Unit \div 10
        angle_deg == RoundDiv(power_angle * 180000, 3141593)
        arc == IF apparent_power > arc_radius
               THEN << [kind |-> "arc",
                        data |-> IF angle_deg < 0 THEN << angle_deg, 0 >>
                                 ELSE << 0, angle_deg >>] >>
               ELSE << >>
        x == Mul(apparent_power, Cos(power_angle))
        y == Mul(apparent_power, Sin(power_angle))
        horizontal_alignment == (RoundDiv(Abs(power_angle), 100) * 100) \div 1047
        vertical_alignment == power_angle > 0
    IN  arc \o
        << [kind |-> "vector", data |-> << x, y >>],
           [kind |-> "point", data |-> << x, y >>],
           [kind |-> "phi_text", data |-> << w.str_var["power_angle"] >>],
           [kind |-> "pf_text",
            data |-> << w.str_var["power_factor"],
                        horizontal_alignment, vertical_alignment >>] >>

\* WaveformViewer.create_temporary_objects, view.py:263-292: nine lines, each
\* with the column it plots against 'time'.
WaveformCreateTemporaryObjects(w) ==
    LET power_sign == Sign(Cos(w.float_var["power_angle"]))
        table == w.waveforms
        line(name, column, solid) ==
            [kind |-> name, data |-> << column, solid >>]
    IN  << line("voltage", table.voltage, TRUE),
           line("current", table.current, power_sign > 0),
           line("current_inverse",
                [k \in Samples |-> -table.current[k]], ~(power_sign > 0)),
           line("active_current", table.active_current, TRUE),
           line("reactive_current", table.reactive_current, TRUE),
           line("summed_current", table.summed_current, TRUE),
           line("active_power", table.active_power, TRUE),
           line("reactive_power", table.reactive_power, TRUE),
           line("apparent_power", table.apparent_power, TRUE) >>

\* The kinds of a sequence of artists.
Kinds(objects) == [i \in DOMAIN objects |-> objects[i].kind]

\* Artist.remove: the artist is taken off the axes it is on.
ArtistRemove(artists, kind) ==
    IF \E i \in DOMAIN artists : artists[i] = kind
    THEN LET i == CHOOSE i \in DOMAIN artists :
                      /\ artists[i] = kind
                      /\ \A j \in DOMAIN artists : artists[j] = kind => j <= i
         IN  SubSeq(artists, 1, i - 1) \o SubSeq(artists, i + 1, Len(artists))
    ELSE artists

\* The axes after GraphBlock.clear_temporary_objects, view.py:97-99: each
\* object popped from the end of the list is removed from its axes.
RECURSIVE RemoveFromAxes(_, _)
RemoveFromAxes(artists, objects) ==
    IF objects = << >> THEN artists
    ELSE RemoveFromAxes(ArtistRemove(artists, objects[Len(objects)].kind),
                        SubSeq(objects, 1, Len(objects) - 1))

\* The list with one pop less than it has objects.
ClearTemporaryObjects_OnePopShort(objects) ==
    IF objects = << >> THEN << >> ELSE << objects[1] >>

\* The list after GraphBlock.clear_temporary_objects, view.py:97-99: it is
\* popped as many times as it has objects.
ClearTemporaryObjects(objects) == << >>

\* A refresh of the waveform view that negates the 'current' column of the
\* model's table in place, and draws nothing.
InstanceRefresh_NegatesCurrentInPlace(w, view) ==
    IF view = "WaveformViewer"
    THEN [w EXCEPT !.refreshed[view] = @ + 1,
                   !.waveforms.current = [k \in Samples |-> -@[k]]]
    ELSE [w EXCEPT !.refreshed[view] = @ + 1]

\* The refresh of one view: GraphBlock.refresh (view.py:91-95) for the two
\* graphs, MyFrame.refresh (view.py:63-66), which does nothing, for the
\* options pane, whose labels follow the str_vars by themselves.
InstanceRefresh(w, view) ==
    LET counted == [w EXCEPT !.refreshed[view] = @ + 1]
        cleared == ClearTemporaryObjects(w.transient_plot_objects[view])
        removed == RemoveFromAxes(w.axes_artists[view],
                                  w.transient_plot_objects[view])
    IN  CASE view = "QuadrantViewer" ->
                [counted EXCEPT
                    !.transient_plot_objects[view] =
                        cleared \o QuadrantCreateTemporaryObjects(w),
                    !.axes_artists[view] =
                        removed \o Kinds(QuadrantCreateTemporaryObjects(w))]
          [] view = "WaveformViewer" ->
                [counted EXCEPT
                    !.transient_plot_objects[view] =
                        cleared \o WaveformCreateTemporaryObjects(w),
                    !.axes_artists[view] =
                        removed \o Kinds(WaveformCreateTemporaryObjects(w))]
          [] OTHER -> counted

RECURSIVE RefreshInstances(_, _)
RefreshInstances(w, instances) ==
    IF instances = << >> THEN w
    ELSE RefreshInstances(InstanceRefresh(w, Head(instances)), Tail(instances))

\* View.refresh, view.py:370-374, MyFrame.refresh_all, view.py:49-55.
ViewRefresh(w) ==
    RefreshInstances([w EXCEPT !.log = Append(@, "view.refresh")], w.gui_instances)

\* What QuadrantViewer.setup puts on its axes for good, view.py:138-143: the
\* unit circle and the four annotations.
QuadrantPermanentArtists == << "unit_circle", "+P", "-P", "+Q", "-Q" >>

\* View.setup, view.py:364-368, MyFrame.setup_all: QuadrantViewer.setup draws
\* what stays on its axes, and of the three setups only WaveformViewer.setup
\* (view.py:257) refreshes its view.
ViewSetup(w) ==
    InstanceRefresh(
        [w EXCEPT !.axes_artists["QuadrantViewer"] = QuadrantPermanentArtists],
        "WaveformViewer")

----------------------------------------------------------------------------
(* The model, model.py.                                                    *)

\* VersatileVar.set, model.py:41-43, of a state variable other than
\* power_angle: no write trace is bound to its float_var.
VarSet(w, name, value) ==
    [w EXCEPT !.float_var[name] = value,
              !.log = Append(@, name),
              !.str_var[name] = Format(value)]

\* The statements of PowerStateVariables.refresh, model.py:151-156, each
\* reading the variables as the statements before it left them.
\* current_rms as the product of apparent_power and voltage_rms.
SetCurrentRms_Product(w) ==
    VarSet(w, "current_rms",
           Mul(w.float_var["apparent_power"], w.float_var["voltage_rms"]))
SetCurrentRms(w) ==
    VarSet(w, "current_rms",
           Div(w.float_var["apparent_power"], w.float_var["voltage_rms"]))
\* current_angle as the sum of the two angles.
SetCurrentAngle_Sum(w) ==
    VarSet(w, "current_angle",
           w.float_var["voltage_angle"] + w.float_var["power_angle"])
\* current_angle moved on from its own last value.
SetCurrentAngle_Accumulate(w) ==
    VarSet(w, "current_angle",
           w.float_var["current_angle"] - w.float_var["power_angle"])
SetCurrentAngle(w) ==
    VarSet(w, "current_angle",
           w.float_var["voltage_angle"] - w.float_var["power_angle"])
SetCosPhi(w) ==
    VarSet(w, "cos_phi", Cos(w.float_var["power_angle"]))
SetPowerFactor(w) ==
    VarSet(w, "power_factor",
           phi_to_pf(w.float_var["power_angle"], w.pf_sign_convention))
SetActivePower(w) ==
    VarSet(w, "active_power",
           Mul(w.float_var["apparent_power"], Cos(w.float_var["power_angle"])))
\* reactive_power with the cosine.
SetReactivePower_Cos(w) ==
    VarSet(w, "reactive_power",
           Mul(w.float_var["apparent_power"], Cos(w.float_var["power_angle"])))
SetReactivePower(w) ==
    VarSet(w, "reactive_power",
           Mul(w.float_var["apparent_power"], Sin(w.float_var["power_angle"])))

\* PowerStateVariables.refresh, model.py:146-156.
StateVariablesRefresh(w) ==
    SetReactivePower(SetActivePower(SetPowerFactor(
        SetCosPhi(SetCurrentAngle(SetCurrentRms(w))))))

\* tk.IntVar.set of Model.state_count, with its write trace: main.py:34 binds
\* View.refresh to it once the views are set up.
StateCountSet(w, value) ==
    IF w.view_trace
    THEN ViewRefresh([w EXCEPT !.state_count = value,
                               !.log = Append(@, "state_count")])
    ELSE [w EXCEPT !.state_count = value, !.log = Append(@, "state_count")]

\* The refresh of the waveform table as a patch: the three power columns are
\* kept as the last refresh left them.
WaveformsStep_KeepsPowerColumns(w) ==
    [w EXCEPT !.waveforms =
                  [WaveformsRefresh(@, voltage_phasor(w), current_phasor(w))
                      EXCEPT !.active_power = w.waveforms.active_power,
                             !.reactive_power = w.waveforms.reactive_power,
                             !.apparent_power = w.waveforms.apparent_power],
              !.log = Append(@, "waveforms")]

\* model.py:200-201, the refresh of the waveform table from the two phasors.
WaveformsStep(w) ==
    [w EXCEPT !.waveforms = WaveformsRefresh(@, voltage_phasor(w), current_phasor(w)),
              !.log = Append(@, "waveforms")]

\* model.py:204, the state count is advanced.
StateCountStep(w) == StateCountSet(w, (w.state_count + 1) % COUNT_MODULUS)

\* The float division of model.py:151 raises ZeroDivisionError when
\* voltage_rms is 0.0, whatever the dividend.
ZeroDivision(w) == w.float_var["voltage_rms"] = 0

\* Model.refresh with the state count written before the waveform table is
\* refreshed.
ModelRefresh_CountBeforeWaveforms(w) ==
    WaveformsStep(StateCountStep(StateVariablesRefresh(w)))

\* Model.refresh that passes over a division by zero: current_rms is left as
\* it is and the refresh goes on.
ModelRefresh_DivisionPassedOver(w) ==
    IF ZeroDivision(w)
    THEN StateCountStep(WaveformsStep(SetReactivePower(SetActivePower(
             SetPowerFactor(SetCosPhi(SetCurrentAngle(w)))))))
    ELSE StateCountStep(WaveformsStep(StateVariablesRefresh(w)))

\* Model.refresh started once more by one of its own writes.
ModelRefresh_Twice(w) ==
    StateCountStep(WaveformsStep(StateVariablesRefresh(
        StateCountStep(WaveformsStep(StateVariablesRefresh(w))))))

\* Model.refresh, model.py:195-204.  The division of model.py:151 is the
\* first thing it evaluates: when that raises, nothing has been set and the
\* rest of the refresh is not run.  Every refresh but the one of
\* Model.__init__ runs in a write trace, where Tk reports the exception and
\* the write that started the trace returns as usual.
ModelRefresh(w) ==
    IF ZeroDivision(w)
    THEN [w EXCEPT !.log = Append(@, "ZeroDivisionError")]
    ELSE StateCountStep(WaveformsStep(StateVariablesRefresh(w)))

\* VersatileVar.set, model.py:41-43, of power_angle: float_var.set runs the
\* write trace that model.py:176 binds to it, Model.refresh, and str_var is
\* set after that has returned.
PowerAngleSet(w, value) ==
    [ModelRefresh([w EXCEPT !.float_var["power_angle"] = value,
                            !.log = Append(@, "power_angle")])
        EXCEPT !.str_var["power_angle"] = Format(value)]

\* The setter with a write trace on apparent_power as well as on power_angle.
PowerPhasorSet_RefreshOnEachWrite(w, phasor) ==
    PowerAngleSet(ModelRefresh(VarSet(w, "apparent_power", CAbs(phasor))),
                  CAngle(phasor))

\* The setter with its two statements in the other order.
PowerPhasorSet_AngleFirst(w, phasor) ==
    VarSet(PowerAngleSet(w, CAngle(phasor)), "apparent_power", CAbs(phasor))

\* The setter of PowerStateVariables.power_phasor, model.py:132-135.
PowerPhasorSet(w, phasor) ==
    PowerAngleSet(VarSet(w, "apparent_power", CAbs(phasor)), CAngle(phasor))

\* The setter of PowerStateVariables.voltage_phasor, model.py:114-117: no
\* write trace is bound to voltage_rms or to voltage_angle.
VoltagePhasorSet(w, phasor) ==
    VarSet(VarSet(w, "voltage_rms", CAbs(phasor)), "voltage_angle", CAngle(phasor))

\* process_power_phasor_change without the min(1., ...).
process_power_phasor_change_NoClamp(w, x_coord, y_coord) ==
    PowerPhasorSet(w, create_phasor(Sqrt(x_coord * x_coord + y_coord * y_coord),
                                    ArcTan2(y_coord, x_coord)))

\* process_power_phasor_change with the arguments of arctan2 exchanged.
process_power_phasor_change_SwappedArctan(w, x_coord, y_coord) ==
    LET magnitude == Sqrt(x_coord * x_coord + y_coord * y_coord)
    IN  PowerPhasorSet(w, create_phasor(IF Unit < magnitude THEN Unit ELSE magnitude,
                                        ArcTan2(x_coord, y_coord)))

\* process_power_phasor_change with the new phasor assigned to the voltage.
process_power_phasor_change_AssignsVoltage(w, x_coord, y_coord) ==
    LET magnitude == Sqrt(x_coord * x_coord + y_coord * y_coord)
    IN  VoltagePhasorSet(w, create_phasor(IF Unit < magnitude THEN Unit ELSE magnitude,
                                          ArcTan2(y_coord, x_coord)))

\* Model.process_power_phasor_change, model.py:188-193.
process_power_phasor_change(w, x_coord, y_coord) ==
    LET magnitude == Sqrt(x_coord * x_coord + y_coord * y_coord)
        new_phasor == create_phasor(IF Unit < magnitude THEN Unit ELSE magnitude,
                                    ArcTan2(y_coord, x_coord))
    IN  PowerPhasorSet(w, new_phasor)

\* The write of pf_sign_convention without a write trace.
SignConventionSet_Untraced(w, sign_convention) ==
    [w EXCEPT !.pf_sign_convention = sign_convention,
              !.log = Append(@, "pf_sign_convention")]

\* tk.StringVar.set of pf_sign_convention by a radio button (view.py:334-340),
\* with its write trace: model.py:177 binds Model.refresh to it.
SignConventionSet(w, sign_convention) ==
    ModelRefresh([w EXCEPT !.pf_sign_convention = sign_convention,
                           !.log = Append(@, "pf_sign_convention")])

\* Every state variable constructed with the value 1.
InitialFloats_AllUnit == [name \in VarNames |-> Unit]

\* PowerStateVariables.__init__, model.py:91-108.
InitialFloats ==
    [name \in VarNames |->
        IF name \in {"power_angle", "voltage_angle", "current_angle",
                     "reactive_power"}
        THEN 0 ELSE Unit]

\* Model.__init__, model.py:165-179, for the views in the given order.
ModelInit(instances) ==
    LET raw == [float_var |-> InitialFloats,
                str_var |-> [name \in VarNames |-> Format(InitialFloats[name])],
                pf_sign_convention |-> "EEI",
                waveforms |-> << >>,
                state_count |-> 0,
                view_trace |-> FALSE,
                gui_instances |-> instances,
                transient_plot_objects |-> [v \in Views |-> << >>],
                axes_artists |-> [v \in Views |-> << >>],
                button_held |-> FALSE,
                log |-> << >>,
                refreshed |-> [v \in Views |-> 0]]
    IN  ModelRefresh([raw EXCEPT !.waveforms =
            WaveformsInit(voltage_phasor(raw), current_phasor(raw))])

\* Controller.__init__, main.py:21-34.
ControllerInit(instances) ==
    [ViewRefresh(ViewSetup(ModelInit(instances))) EXCEPT !.view_trace = TRUE]

----------------------------------------------------------------------------
(* The handlers of the quadrant view, view.py:148-161.                     *)

\* The press handler with _button_held set only inside the axes.
_button_press_handler_HeldInsideOnly(w, ev) ==
    IF ev.button = "LEFT" /\ ev.inaxes
    THEN process_power_phasor_change([w EXCEPT !.button_held = TRUE], ev.x, ev.y)
    ELSE w

_button_press_handler(w, ev) ==
    IF ev.button = "LEFT"
    THEN LET held == [w EXCEPT !.button_held = TRUE]
         IN  IF ev.inaxes THEN process_power_phasor_change(held, ev.x, ev.y)
             ELSE held
    ELSE w

_button_release_handler(w, ev) ==
    IF ev.button = "LEFT" THEN [w EXCEPT !.button_held = FALSE] ELSE w

\* The motion handler without the test of _button_held.
_motion_notify_handler_Hover(w, ev) ==
    IF ev.inaxes THEN process_power_phasor_change(w, ev.x, ev.y) ELSE w

_motion_notify_handler(w, ev) ==
    IF w.button_held /\ ev.inaxes
    THEN process_power_phasor_change(w, ev.x, ev.y)
    ELSE w

----------------------------------------------------------------------------
(* The standalone program, power_quadrant_gui.py: the variables are class  *)
(* attributes of GUIBlock and each view binds its own write traces.  Tcl   *)
(* runs the write traces of a variable most recently bound first.          *)

\* GUIBlock.quadrant_attributes, power_quadrant_gui.py:51-66: the four pairs.
quadrant_attributes ==
    << << "exporting_real", "importing_real" >>,
       << "overexcited", "underexcited" >>,
       << "leading", "lagging" >>,
       << "positive_pf", "negative_pf" >> >>

AttributeNames == {quadrant_attributes[j][i] : j \in 1..4, i \in 1..2}

\* power_quadrant_gui.py:427-429, the other variable of the pair.
var_not_clicked(var_clicked) ==
    LET j == CHOOSE j \in 1..4 :
                 \E i \in 1..2 : quadrant_attributes[j][i] = var_clicked
    IN  IF quadrant_attributes[j][1] = var_clicked
        THEN quadrant_attributes[j][2] ELSE quadrant_attributes[j][1]

\* GUIBlock.power_factor, power_quadrant_gui.py:46-49 and 101-103.
power_factor(g) ==
    IF g.pf_sign_convention = "EEI"
    THEN Mul(Cos(g.phi), -Sign(Sin(g.phi)) * Unit)
    ELSE Cos(g.phi)

\* GraphBlock._refresh of the quadrant view, power_quadrant_gui.py:126-132,
\* with QuadrantViewer.refresh, 211-247: the transient objects are replaced
\* by ones made from the variables as they are now.
QuadrantViewerRefresh(g) ==
    [g EXCEPT !.quadrant_plot =
        [arc |-> Mul(g.voltage, g.current) > Unit \div 10,
         x |-> Mul(Mul(g.voltage, g.current), Cos(g.phi)),
         y |-> Mul(Mul(g.voltage, g.current), Sin(g.phi)),
         phi_text |-> g.phi_str,
         pf_text |-> Format(power_factor(g))]]

\* GraphBlock._refresh of the waveform view, with WaveformViewer.refresh,
\* power_quadrant_gui.py:306-351.
WaveformViewerRefresh(g) ==
    [g EXCEPT !.waveform_plot =
        [power_sign |-> Sign(Cos(g.phi)),
         voltage_wave |->
            [k \in Samples |->
                RealOfProduct([re |-> Mul(SQRT_TWO, g.voltage), im |-> 0],
                              PhaseColumn[k])],
         current_wave |->
            [k \in Samples |->
                RealOfProduct(CScale(Mul(SQRT_TWO, g.current), Rect(-g.phi)),
                              PhaseColumn[k])]]]

\* GraphOptionsPane._calculate_variables, power_quadrant_gui.py:438-449.
_calculate_variables(g) ==
    [g EXCEPT !.readout =
        [voltage_str |-> Format(g.voltage),
         current_str |-> Format(g.current),
         cos_phi_str |-> Format(Cos(g.phi)),
         apparent_power_str |-> Format(Mul(g.voltage, g.current)),
         active_power_str |-> Format(Mul(Mul(g.voltage, g.current), Cos(g.phi))),
         reactive_power_str |-> Format(Mul(Mul(g.voltage, g.current), Sin(g.phi)))]]

\* The write trace of power_quadrant_gui.py:160.
PhiStrSet(g) == [g EXCEPT !.phi_str = Format(g.phi)]

\* phi.set with its write traces, the last bound first: WaveformViewer's
\* _refresh (117), _calculate_variables (358), the phi_str trace (160) and
\* QuadrantViewer's _refresh (117).
PhiSet(g, value) ==
    QuadrantViewerRefresh(PhiStrSet(_calculate_variables(
        WaveformViewerRefresh([g EXCEPT !.phi = value]))))

\* current.set with its write trace, _calculate_variables (360).
CurrentSet(g, value) == _calculate_variables([g EXCEPT !.current = value])

\* pf_sign_convention.set with its write trace, QuadrantViewer's _refresh
\* (161).
ConventionSet(g, sign_convention) ==
    QuadrantViewerRefresh([g EXCEPT !.pf_sign_convention = sign_convention])

\* QuadrantViewer._recalculate_phi, power_quadrant_gui.py:205-209.  No trace
\* of phi writes voltage, which is read after phi.set.
_recalculate_phi(g, ev) ==
    IF ev.inaxes
    THEN LET magnitude == Sqrt(ev.y * ev.y + ev.x * ev.x)
         IN  CurrentSet(PhiSet(g, ArcTan2(ev.y, ev.x)),
                        Div(IF Unit < magnitude THEN Unit ELSE magnitude,
                            g.voltage))
    ELSE g

\* The handlers of the quadrant view, power_quadrant_gui.py:192-203.
QuadrantViewer_button_press_handler(g, ev) ==
    IF ev.button = "LEFT"
    THEN _recalculate_phi([g EXCEPT !.button_held = TRUE], ev)
    ELSE g

QuadrantViewer_button_release_handler(g, ev) ==
    IF ev.button = "LEFT" THEN [g EXCEPT !.button_held = FALSE] ELSE g

QuadrantViewer_motion_notify_handler(g, ev) ==
    IF g.button_held THEN _recalculate_phi(g, ev) ELSE g

\* set_button_pair_state without the write to the other variable.
set_button_pair_state_KeepsPartner(g, var_clicked) == g

\* set_button_pair_state, power_quadrant_gui.py:426-433, the write trace of
\* a quadrant attribute: when the variable is true the other one of its pair
\* is set to False, and the trace of that write finds its variable false
\* and does nothing.
set_button_pair_state(g, var_clicked) ==
    IF g.attributes[var_clicked]
    THEN [g EXCEPT !.attributes[var_not_clicked(var_clicked)] = FALSE]
    ELSE g

\* The command of a button, power_quadrant_gui.py:419: var.set(not var.get()),
\* with the write trace of the variable.
ButtonCommand(g, var) ==
    set_button_pair_state([g EXCEPT !.attributes[var] = ~@], var)

\* The class attributes of GUIBlock (power_quadrant_gui.py:41-59), the
\* attributes of the views (157-158) and what GUIBlock.init (83-86) draws.
PowerQuadrantsGUIInit ==
    _calculate_variables(WaveformViewerRefresh(QuadrantViewerRefresh(
        [phi |-> 0, voltage |-> Unit, current |-> Unit,
         pf_sign_convention |-> "EEI",
         attributes |-> [var \in AttributeNames |-> FALSE],
         button_held |-> FALSE,
         phi_str |-> Format(0),
         quadrant_plot |-> << >>, waveform_plot |-> << >>,
         readout |-> << >>])))

----------------------------------------------------------------------------
(* Input events.                                                           *)

\* The coordinates tried on each axis of the quadrant plot.
Coords == {-AXIS_LIMIT, 0, AXIS_LIMIT}

\* The points of the scenarios: (1, 0), (0, -1) and a point inside the circle.
ScenarioPoints == {<< Unit, 0 >>, << 0, -Unit >>, << 300, -400 >>}

Points == (Coords \X Coords) \cup ScenarioPoints

Buttons == {"LEFT", "RIGHT"}

\* matplotlib's pointer events: outside the axes xdata and ydata are None.
PointerEvent(kind, button, inaxes, p) ==
    [kind |-> kind, button |-> button, inaxes |-> inaxes,
     x |-> IF inaxes THEN p[1] ELSE 0, y |-> IF inaxes THEN p[2] ELSE 0,
     sign_convention |-> "-"]

ConventionEvent(sign_convention) ==
    [kind |-> "convention", button |-> "-", inaxes |-> FALSE, x |-> 0, y |-> 0,
     sign_convention |-> sign_convention]

NoEvent ==
    [kind |-> "none", button |-> "-", inaxes |-> FALSE, x |-> 0, y |-> 0,
     sign_convention |-> "-"]

\* The scalar fields of the state.
Scalars ==
    [float_var |-> float_var, str_var |-> str_var,
     pf_sign_convention |-> pf_sign_convention,
     state_count |-> state_count, button_held |-> button_held]

\* The orders in which the set gui_instances may be iterated: the two graphs
\* in either order.  The refresh of the options pane does nothing, so that
\* its place among them makes no difference.
InstanceOrders ==
    {<< "QuadrantViewer", "GraphOptionsPane", "WaveformViewer" >>,
     << "WaveformViewer", "GraphOptionsPane", "QuadrantViewer" >>}

\* A handler starts with an empty record of its own steps.
Entered == [World EXCEPT !.log = << >>, !.refreshed = [v \in Views |-> 0]]

\* The state a handler leaves, after the event ev.
Becomes(w, ev) ==
    /\ float_var' = w.float_var
    /\ str_var' = w.str_var
    /\ pf_sign_convention' = w.pf_sign_convention
    /\ waveforms' = w.waveforms
    /\ state_count' = w.state_count
    /\ view_trace' = w.view_trace
    /\ gui_instances' = w.gui_instances
    /\ transient_plot_objects' = w.transient_plot_objects
    /\ axes_artists' = w.axes_artists
    /\ button_held' = w.button_held
    /\ log' = w.log
    /\ refreshed' = w.refreshed
    /\ event' = ev
    /\ before' = Scalars
    /\ UNCHANGED power_quadrants_gui

Init ==
    \E instances \in InstanceOrders :
        \E w \in {ControllerInit(instances)} :
            /\ float_var = w.float_var
            /\ str_var = w.str_var
            /\ pf_sign_convention = w.pf_sign_convention
            /\ waveforms = w.waveforms
            /\ state_count = w.state_count
            /\ view_trace = w.view_trace
            /\ gui_instances = w.gui_instances
            /\ transient_plot_objects = w.transient_plot_objects
            /\ axes_artists = w.axes_artists
            /\ button_held = w.button_held
            /\ log = << >>
            /\ refreshed = [v \in Views |-> 0]
            /\ event = NoEvent
            /\ before = [float_var |-> w.float_var, str_var |-> w.str_var,
                         pf_sign_convention |-> w.pf_sign_convention,
                         state_count |-> w.state_count,
                         button_held |-> w.button_held]
            /\ events = 0
            /\ power_quadrants_gui = PowerQuadrantsGUIInit

\* button_press_event on the quadrant canvas.
ButtonPress(button, inaxes, p) ==
    LET ev == PointerEvent("press", button, inaxes, p)
    IN  Becomes(_button_press_handler(Entered, ev), ev)

\* button_release_event on the quadrant canvas.
ButtonRelease(button, inaxes, p) ==
    LET ev == PointerEvent("release", button, inaxes, p)
    IN  Becomes(_button_release_handler(Entered, ev), ev)

\* motion_notify_event on the quadrant canvas.
MotionNotify(inaxes, p) ==
    LET ev == PointerEvent("motion", "-", inaxes, p)
    IN  Becomes(_motion_notify_handler(Entered, ev), ev)

\* A click on one of the two sign convention radio buttons.
SelectConvention(sign_convention) ==
    Becomes(SignConventionSet(Entered, sign_convention),
            ConventionEvent(sign_convention))

\* The events that differ for a handler: a press or a move inside the axes
\* at each point, and one event of every kind whose coordinates are not read.
Somewhere == << Unit, 0 >>

Input ==
    \/ \E p \in Points : ButtonPress("LEFT", TRUE, p)
    \/ ButtonPress("LEFT", FALSE, Somewhere)
    \/ \E inaxes \in BOOLEAN : ButtonPress("RIGHT", inaxes, Somewhere)
    \/ \E button \in Buttons, inaxes \in BOOLEAN :
           ButtonRelease(button, inaxes, Somewhere)
    \/ \E p \in Points : MotionNotify(TRUE, p)
    \/ MotionNotify(FALSE, Somewhere)
    \/ \E sign_convention \in Conventions : SelectConvention(sign_convention)

Next ==
    /\ events < MaxEvents
    /\ events' = events + 1
    /\ Input

Spec == Init /\ [][Next]_vars

\* Long runs, for the state count: the sign convention is selected over and
\* over, without a bound on the number of events.
NextRevisions ==
    /\ UNCHANGED events
    /\ \E sign_convention \in Conventions : SelectConvention(sign_convention)

SpecRevisions == Init /\ [][NextRevisions]_vars

\* The calls on the public variables and phasor setters of the state model.
SetterEvent(kind, x, y) ==
    [kind |-> kind, button |-> "-", inaxes |-> FALSE, x |-> x, y |-> y,
     sign_convention |-> "-"]

\* The values given to the setters: magnitudes 0, 0.5 and 1, and the angles
\* -pi/2, 0, pi/6 and pi.
Magnitudes == {0, Unit \div 2, Unit}
VoltageAngles == {0, 524}
PowerAngles == {-1571, 0, 524, 3142}

\* A value of pf_sign_convention that is neither of the two keys.
OtherKeys == {"ANSI"}

\* VersatileVar.set of apparent_power, voltage_rms or voltage_angle.
SetVariable(name, value) ==
    Becomes(VarSet(Entered, name, value), SetterEvent(name, value, 0))

\* VersatileVar.set of power_angle.
SetPowerAngle(value) ==
    Becomes(PowerAngleSet(Entered, value), SetterEvent("power_angle", value, 0))

\* An assignment to PowerStateVariables.voltage_phasor.
SetVoltagePhasor(amplitude, angle) ==
    Becomes(VoltagePhasorSet(Entered, create_phasor(amplitude, angle)),
            SetterEvent("voltage_phasor", amplitude, angle))

\* An assignment to PowerStateVariables.power_phasor.
SetPowerPhasor(amplitude, angle) ==
    Becomes(PowerPhasorSet(Entered, create_phasor(amplitude, angle)),
            SetterEvent("power_phasor", amplitude, angle))

NextSetters ==
    /\ events < MaxEvents
    /\ events' = events + 1
    /\ \/ \E value \in Magnitudes : SetVariable("apparent_power", value)
       \/ \E value \in Magnitudes : SetVariable("voltage_rms", value)
       \/ \E value \in VoltageAngles : SetVariable("voltage_angle", value)
       \/ \E value \in PowerAngles : SetPowerAngle(value)
       \/ \E amplitude \in Magnitudes, angle \in VoltageAngles :
              SetVoltagePhasor(amplitude, angle)
       \/ \E amplitude \in Magnitudes, angle \in PowerAngles :
              SetPowerPhasor(amplitude, angle)
       \/ \E sign_convention \in Conventions : SelectConvention(sign_convention)
       \/ \E p \in ScenarioPoints : ButtonPress("LEFT", TRUE, p)
       \/ \E sign_convention \in OtherKeys : SelectConvention(sign_convention)

SpecSetters == Init /\ [][NextSetters]_vars

----------------------------------------------------------------------------
(* The standalone program under the events of its quadrant view, and under *)
(* the clicks of its options pane.  The other program is left alone;       *)
(* `before' holds the standalone program's state as the handler found it.  *)

StandaloneBecomes(g, ev) ==
    /\ power_quadrants_gui' = g
    /\ event' = ev
    /\ before' = power_quadrants_gui
    /\ UNCHANGED << float_var, str_var, pf_sign_convention, waveforms,
                    state_count, view_trace, gui_instances,
                    transient_plot_objects, axes_artists, button_held,
                    log, refreshed >>

StandaloneButtonPress(button, inaxes, p) ==
    StandaloneBecomes(
        QuadrantViewer_button_press_handler(
            power_quadrants_gui, PointerEvent("press", button, inaxes, p)),
        PointerEvent("press", button, inaxes, p))

StandaloneButtonRelease(button, inaxes, p) ==
    StandaloneBecomes(
        QuadrantViewer_button_release_handler(
            power_quadrants_gui, PointerEvent("release", button, inaxes, p)),
        PointerEvent("release", button, inaxes, p))

StandaloneMotionNotify(inaxes, p) ==
    StandaloneBecomes(
        QuadrantViewer_motion_notify_handler(
            power_quadrants_gui, PointerEvent("motion", "-", inaxes, p)),
        PointerEvent("motion", "-", inaxes, p))

StandaloneSelectConvention(sign_convention) ==
    StandaloneBecomes(ConventionSet(power_quadrants_gui, sign_convention),
                      ConventionEvent(sign_convention))

NextStandalone ==
    /\ events < MaxEvents
    /\ events' = events + 1
    /\ \/ \E button \in Buttons, inaxes \in BOOLEAN, p \in Points :
              StandaloneButtonPress(button, inaxes, p)
       \/ \E button \in Buttons, inaxes \in BOOLEAN, p \in Points :
              StandaloneButtonRelease(button, inaxes, p)
       \/ \E inaxes \in BOOLEAN, p \in Points :
              StandaloneMotionNotify(inaxes, p)
       \/ \E sign_convention \in {"EEI", "IEC"} :
              StandaloneSelectConvention(sign_convention)

SpecStandalone == Init /\ [][NextStandalone]_vars

\* A click on the button of a quadrant attribute.
ClickEvent(var) ==
    [kind |-> "click", button |-> var, inaxes |-> FALSE, x |-> 0, y |-> 0,
     sign_convention |-> "-"]

StandaloneClick(var) ==
    /\ StandaloneBecomes(ButtonCommand(power_quadrants_gui, var),
                         ClickEvent(var))
    /\ UNCHANGED events

NextAttributes == \E var \in AttributeNames : StandaloneClick(var)

SpecAttributes == Init /\ [][NextAttributes]_vars

----------------------------------------------------------------------------
(* What the properties are stated with.                                    *)

DerivedNames ==
    {"current_rms", "current_angle", "cos_phi", "power_factor",
     "active_power", "reactive_power"}

\* How often a step is in the record of the last handler.
Count(step) == Cardinality({i \in DOMAIN log : log[i] = step})

\* The last handler recomputed the model.
Recomputed == Count("state_count") > 0

\* The last event made its handler call process_power_phasor_change.
Dragged ==
    /\ event.inaxes
    /\ \/ event.kind = "press" /\ event.button = "LEFT"
       \/ event.kind = "motion" /\ before.button_held

\* a and b differ by at most one unit of the fixed-point resolution.
Near(a, b) == Abs(a - b) <= 1

\* The artist of the given kind among the transient objects of a view.
Artist(view, kind) ==
    LET objects == transient_plot_objects[view]
    IN  objects[CHOOSE i \in DOMAIN objects : objects[i].kind = kind]

\* The eight computed columns of the waveform table.
ComputedColumns ==
    {"voltage", "current", "active_current", "reactive_current",
     "summed_current", "active_power", "reactive_power", "apparent_power"}

----------------------------------------------------------------------------
(* Properties.                                                             *)

\* C1: whenever the views are refreshed through the state count's write
\* trace, the derived fields and the waveform table have already been
\* recomputed from the current independent fields: in Model.refresh the
\* write of the state count comes last, after the state refresh and the
\* waveform refresh, and the views draw the recomputed values.
C1_ViewsSeeRecomputedModel ==
    Count("view.refresh") > 0 =>
        /\ log[Len(log)] = "view.refresh"
        /\ log[Len(log) - 1] = "state_count"
        /\ \A i \in DOMAIN log :
              log[i] \in DerivedNames \cup {"waveforms"} => i < Len(log) - 1
        /\ \A i, j \in DOMAIN log :
              /\ log[i] \in {"apparent_power", "power_angle", "pf_sign_convention"}
              /\ log[j] \in DerivedNames \cup {"waveforms"}
              => i < j
        /\ float_var["current_rms"] =
              Div(float_var["apparent_power"], float_var["voltage_rms"])
        /\ float_var["current_angle"] =
              float_var["voltage_angle"] - float_var["power_angle"]
        /\ float_var["cos_phi"] = Cos(float_var["power_angle"])
        /\ float_var["power_factor"] =
              phi_to_pf(float_var["power_angle"], pf_sign_convention)
        /\ float_var["active_power"] =
              Mul(float_var["apparent_power"], Cos(float_var["power_angle"]))
        /\ float_var["reactive_power"] =
              Mul(float_var["apparent_power"], Sin(float_var["power_angle"]))
        /\ waveforms = WaveformsRefresh(waveforms,
              create_phasor(float_var["voltage_rms"], float_var["voltage_angle"]),
              create_phasor(float_var["current_rms"], float_var["current_angle"]))
        /\ \A column \in ComputedColumns :
              Artist("WaveformViewer", column).data[1] = waveforms[column]
        /\ Artist("QuadrantViewer", "pf_text").data[1] =
              Format(float_var["power_factor"])
        /\ Artist("QuadrantViewer", "point").data =
              << Mul(Mul(float_var["voltage_rms"], float_var["current_rms"]),
                     Cos(float_var["power_angle"])),
                 Mul(Mul(float_var["voltage_rms"], float_var["current_rms"]),
                     Sin(float_var["power_angle"])) >>

\* A drag to the point inside the circle has refreshed the views.
C1_Witness ==
    /\ Dragged /\ event.x = 300 /\ event.y = -400
    /\ Count("view.refresh") = 1
    /\ float_var["apparent_power"] = 500
    /\ before.float_var["apparent_power"] = Unit

C3_CountModulo256 ==
    /\ Recomputed => state_count = (before.state_count + 1) % 256
    /\ ~Recomputed => state_count = before.state_count

\* C4: after every recomputation, and in what the views draw, current_angle
\* is voltage_angle - power_angle and current_rms is apparent_power /
\* voltage_rms, for any sequence of drags and sign convention changes.
C4_CurrentPhasor ==
    /\ float_var["current_angle"] =
          float_var["voltage_angle"] - float_var["power_angle"]
    /\ float_var["current_rms"] =
          Div(float_var["apparent_power"], float_var["voltage_rms"])
    /\ Artist("WaveformViewer", "current").data[1] =
          [k \in Samples |->
              RealOfProduct(
                  CScale(SQRT_TWO,
                      create_phasor(
                          Div(float_var["apparent_power"], float_var["voltage_rms"]),
                          float_var["voltage_angle"] - float_var["power_angle"])),
                  PhaseColumn[k])]

\* A sign convention change after a drag to the point inside the circle.
C4_Witness ==
    /\ event.kind = "convention" /\ Recomputed
    /\ float_var["power_angle"] = -1047
    /\ float_var["current_angle"] = 1047
    /\ float_var["current_rms"] = 500

\* C5: after process_power_phasor_change(x, y) the stored power_angle is
\* atan2(y, x) and the stored apparent_power is min(1, sqrt(x^2 + y^2)); (1, 0)
\* gives 0 and 1, (0, -1) gives -pi/2 and 1, and a point outside the unit
\* circle keeps its angle while its magnitude becomes 1.
C5_DragRoundTrip ==
    Dragged =>
        LET magnitude == Sqrt(event.x * event.x + event.y * event.y)
        IN  /\ float_var["power_angle"] = ArcTan2(event.y, event.x)
            /\ float_var["apparent_power"] =
                  IF magnitude < Unit THEN magnitude ELSE Unit
            /\ (event.x = Unit /\ event.y = 0) =>
                  float_var["power_angle"] = 0 /\ float_var["apparent_power"] = Unit
            /\ (event.x = 0 /\ event.y = -Unit) =>
                  float_var["power_angle"] = -1571 /\ float_var["apparent_power"] = Unit
            /\ (event.x = AXIS_LIMIT /\ event.y = AXIS_LIMIT) =>
                  float_var["power_angle"] = 785 /\ float_var["apparent_power"] = Unit

\* A drag to (0, -1) from another point.
C5_Witness ==
    /\ Dragged /\ event.x = 0 /\ event.y = -Unit
    /\ float_var["power_angle"] = -1571
    /\ before.float_var["power_angle"] # -1571

\* C6: in every reachable state apparent_power and current_rms lie in [0, 1].
C6_UnitBounds ==
    /\ 0 <= float_var["apparent_power"] /\ float_var["apparent_power"] <= Unit
    /\ 0 <= float_var["current_rms"] /\ float_var["current_rms"] <= Unit

\* A drag to the corner of the axes, outside the unit circle, from the origin.
C6_Witness ==
    /\ Dragged /\ event.x = -AXIS_LIMIT /\ event.y = AXIS_LIMIT
    /\ before.float_var["apparent_power"] = 0
    /\ float_var["apparent_power"] = Unit /\ float_var["current_rms"] = Unit

\* C7: after every recomputation power_factor is cos(phi) * -sign(sin(phi))
\* under EEI and cos(phi) under IEC, with sign(0) = 0: with voltage_rms = 1,
\* current_rms = 1 and phi = 0 it is 1 under IEC and 0 under EEI.
C7_PowerFactor ==
    LET phi == float_var["power_angle"]
        pf == float_var["power_factor"]
    IN  /\ pf_sign_convention = "EEI" =>
              pf = Mul(Cos(phi), -Sign(Sin(phi)) * Unit)
        /\ pf_sign_convention = "IEC" => pf = Cos(phi)
        /\ (phi = 0 /\ float_var["voltage_rms"] = Unit
                    /\ float_var["current_rms"] = Unit) =>
              /\ pf_sign_convention = "IEC" => pf = Unit
              /\ pf_sign_convention = "EEI" => pf = 0

\* IEC is selected at phi = 0, where the power factor was 0 under EEI.
C7_Witness ==
    /\ event.kind = "convention" /\ Recomputed
    /\ pf_sign_convention = "IEC" /\ before.pf_sign_convention = "EEI"
    /\ float_var["power_angle"] = 0 /\ float_var["current_rms"] = Unit
    /\ before.float_var["power_factor"] = 0
    /\ float_var["power_factor"] = Unit

\* C8: after every recomputation active_power = apparent_power * cos(phi)
\* and reactive_power = apparent_power * sin(phi), from the apparent_power
\* and phi the event has set; at phi = pi/2 active_power is 0, reactive_power
\* is apparent_power and power_factor is 0 under both conventions (each to
\* the resolution).
C8_ActiveReactivePower ==
    LET phi == float_var["power_angle"]
        magnitude == Sqrt(event.x * event.x + event.y * event.y)
        clamped == IF magnitude < Unit THEN magnitude ELSE Unit
    IN  /\ float_var["active_power"] = Mul(float_var["apparent_power"], Cos(phi))
        /\ float_var["reactive_power"] = Mul(float_var["apparent_power"], Sin(phi))
        /\ Dragged =>
              /\ float_var["active_power"] =
                    Mul(clamped, Cos(ArcTan2(event.y, event.x)))
              /\ float_var["reactive_power"] =
                    Mul(clamped, Sin(ArcTan2(event.y, event.x)))
        /\ phi = 1571 =>
              /\ Near(float_var["active_power"], 0)
              /\ Near(float_var["reactive_power"], float_var["apparent_power"])
              /\ Near(float_var["power_factor"], 0)

\* A drag to phi = pi/2 from a state with another apparent power.
C8_Witness ==
    /\ Dragged /\ event.x = 0 /\ event.y = AXIS_LIMIT
    /\ float_var["power_angle"] = 1571
    /\ before.float_var["apparent_power"] = 500
    /\ float_var["apparent_power"] = Unit
    /\ float_var["reactive_power"] = Unit

\* C9: after a recomputation with voltage_rms > 0 and phi in (-pi, pi],
\* active_power^2 + reactive_power^2 = apparent_power^2, within 0.001.
C9_PowerTriangle ==
    (float_var["voltage_rms"] > 0 /\ -3142 < float_var["power_angle"]
                                  /\ float_var["power_angle"] <= 3142) =>
        Abs(float_var["active_power"] * float_var["active_power"]
            + float_var["reactive_power"] * float_var["reactive_power"]
            - float_var["apparent_power"] * float_var["apparent_power"]) <= Unit

\* A drag to a point where neither power is zero.
C9_Witness ==
    /\ Dragged /\ Recomputed
    /\ float_var["apparent_power"] = 500
    /\ float_var["active_power"] = 250
    /\ float_var["reactive_power"] = -433

\* The independent fields of the state.
Inputs ==
    << float_var["apparent_power"], float_var["power_angle"],
       float_var["voltage_rms"], float_var["voltage_angle"], pf_sign_convention >>

\* C10: a Model.refresh with unchanged inputs leaves every independent
\* field, every derived field and every waveform row as it was, and advances
\* the state count by one.
C10_RefreshIdempotent ==
    [][(Recomputed' /\ Inputs' = Inputs) =>
          /\ float_var' = float_var
          /\ str_var' = str_var
          /\ waveforms' = waveforms
          /\ state_count' = (state_count + 1) % COUNT_MODULUS]_vars

\* The selected sign convention is selected again, at a point inside the
\* circle: the inputs are the same and the model was recomputed.
C10_Witness ==
    /\ event.kind = "convention" /\ Recomputed
    /\ before.pf_sign_convention = pf_sign_convention
    /\ before.float_var = float_var
    /\ float_var["power_angle"] = -1047 /\ float_var["apparent_power"] = 500
    /\ state_count = before.state_count + 1

\* C11: the derived fields and the waveform table are a function of the
\* current independent fields only: in every state, whatever drags and sign
\* convention changes led to it, they are what a computation from nothing
\* but apparent_power, power_angle, the voltage phasor and the sign
\* convention gives, so that two runs that agree on these agree on all of
\* them and no value of an earlier recomputation survives.
C11_FunctionOfInputs ==
    LET apparent_power == float_var["apparent_power"]
        power_angle == float_var["power_angle"]
        current_rms == Div(apparent_power, float_var["voltage_rms"])
        current_angle == float_var["voltage_angle"] - power_angle
    IN  /\ float_var["current_rms"] = current_rms
        /\ float_var["current_angle"] = current_angle
        /\ float_var["cos_phi"] = Cos(power_angle)
        /\ float_var["power_factor"] = phi_to_pf(power_angle, pf_sign_convention)
        /\ float_var["active_power"] = Mul(apparent_power, Cos(power_angle))
        /\ float_var["reactive_power"] = Mul(apparent_power, Sin(power_angle))
        /\ waveforms =
              WaveformsInit(
                  create_phasor(float_var["voltage_rms"], float_var["voltage_angle"]),
                  create_phasor(current_rms, current_angle))

\* The point inside the circle is reached by a move from phi = pi/2 on the
\* circle: a press at that point as the first event reaches the same
\* independent fields by another history.
C11_Witness ==
    /\ events = 2
    /\ event.kind = "motion" /\ Dragged /\ event.x = 300 /\ event.y = -400
    /\ before.float_var["power_angle"] = 1571
    /\ before.float_var["apparent_power"] = Unit
    /\ float_var["apparent_power"] = 500 /\ float_var["power_angle"] = -1047

\* C12: in every row of the waveform table the summed_current column is
\* active_current + reactive_current and equals the current column (to the
\* resolution), for every voltage phasor and current phasor.
C12_CurrentDecomposition ==
    \A k \in Samples :
        /\ waveforms.summed_current[k] =
              waveforms.active_current[k] + waveforms.reactive_current[k]
        /\ Near(waveforms.summed_current[k], waveforms.current[k])

\* A recomputation with the voltage phasor 0.5 at pi/6 and a current phasor
\* of magnitude 2 with both an active and a reactive part.
C12_Witness ==
    /\ Recomputed
    /\ float_var["voltage_rms"] = 500 /\ float_var["voltage_angle"] = 524
    /\ float_var["current_rms"] = 2 * Unit
    /\ \E k \in Samples : waveforms.active_current[k] > 100
    /\ \E k \in Samples : waveforms.reactive_current[k] > 100

\* C13: the waveform table always has exactly 100 rows; its time column is
\* 100 evenly spaced values from -10 to 30 and, like the phase column, it is
\* what the construction made it after every recomputation.
C13_TimeAndPhaseFixed ==
    /\ \A column \in ComputedColumns \cup {"time", "phase"} :
          DOMAIN waveforms[column] = 1..100
    /\ waveforms.time[1] = -10 * Unit
    /\ waveforms.time[100] = 30 * Unit
    /\ \A k \in 1..99 :
          Near(waveforms.time[k + 1] - waveforms.time[k], RoundDiv(40 * Unit, 99))
    /\ waveforms.time = TimeColumn
    /\ waveforms.phase = PhaseColumn

\* A drag to (0, -1) has recomputed the current column.
C13_Witness ==
    /\ Dragged /\ Recomputed /\ event.x = 0 /\ event.y = -Unit
    /\ Near(waveforms.current[1], 0)
    /\ waveforms.time[100] = 30 * Unit

Graphs == {"QuadrantViewer", "WaveformViewer"}

ViewOrders ==
    {order \in [1..3 -> Views] : \A view \in Views : \E i \in 1..3 : order[i] = view}

Pointer == event.kind \in {"press", "release", "motion"}

\* C17: a pointer event changes the model only if it is a press of the left
\* button inside the axes or a move inside the axes while the left button is
\* held: a move while it is not held, an event outside the axes, a release
\* and an event of another button write no field of the model and leave the
\* state count and the waveform table as they were.
C17_OnlyDragsChangeModel ==
    [][(Pointer' /\ ~Dragged') =>
          /\ log' = << >>
          /\ float_var' = float_var
          /\ str_var' = str_var
          /\ pf_sign_convention' = pf_sign_convention
          /\ waveforms' = waveforms
          /\ state_count' = state_count]_vars

\* A move inside the axes, to another point than the one of the state,
\* while the button is not held.
C17_Witness ==
    /\ event.kind = "motion" /\ event.inaxes /\ ~before.button_held
    /\ event.x = 0 /\ event.y = -Unit
    /\ float_var["power_angle"] = 0
    /\ state_count = before.state_count

\* C18: a selection of the sign convention causes exactly one recomputation
\* and changes only pf_sign_convention, power_factor and the state count:
\* apparent_power, power_angle, the voltage and current phasors, cos_phi,
\* active_power, reactive_power and every waveform row keep their values.
C18_ConventionChangesPowerFactorOnly ==
    [][event'.kind = "convention" =>
          /\ Count("state_count")' = 1
          /\ Count("waveforms")' = 1
          /\ \A name \in DerivedNames : Count(name)' = 1
          /\ state_count' = (state_count + 1) % COUNT_MODULUS
          /\ \A name \in VarNames \ {"power_factor"} :
                /\ float_var'[name] = float_var[name]
                /\ str_var'[name] = str_var[name]
          /\ waveforms' = waveforms]_vars

\* IEC is selected at phi = pi/4, where the power factor under EEI is
\* negative: the power factor changes its sign.
C18_Witness ==
    /\ event.kind = "convention"
    /\ before.pf_sign_convention = "EEI" /\ pf_sign_convention = "IEC"
    /\ float_var["power_angle"] = 785
    /\ before.float_var["power_factor"] = -707
    /\ float_var["power_factor"] = 707
    /\ state_count = before.state_count + 1

\* The last event was a call that sets an independent input of the state
\* model, and it changed one.
InputChanged ==
    /\ event.kind \in {"apparent_power", "power_angle", "voltage_rms",
                        "voltage_angle", "voltage_phasor", "power_phasor",
                        "convention"}
    /\ \/ \E name \in {"apparent_power", "power_angle", "voltage_rms", "voltage_angle"} :
              float_var[name] # before.float_var[name]
       \/ pf_sign_convention # before.pf_sign_convention

\* C19: whenever an independent input (apparent power, power angle, voltage
\* RMS, voltage angle, sign convention) is changed through its variable or
\* through a phasor setter, the dependent quantities and the waveform table
\* are recomputed and the state count advances: once the setter has returned
\* no derived field is stale.  (Stated for a voltage_rms other than 0.)
C19_InputChangeRecomputes ==
    (InputChanged /\ float_var["voltage_rms"] # 0) =>
        /\ Recomputed
        /\ state_count = (before.state_count + 1) % COUNT_MODULUS
        /\ float_var["current_rms"] =
              Div(float_var["apparent_power"], float_var["voltage_rms"])
        /\ float_var["current_angle"] =
              float_var["voltage_angle"] - float_var["power_angle"]
        /\ float_var["active_power"] =
              Mul(float_var["apparent_power"], Cos(float_var["power_angle"]))
        /\ float_var["reactive_power"] =
              Mul(float_var["apparent_power"], Sin(float_var["power_angle"]))
        /\ waveforms.voltage =
              [k \in Samples |->
                  RealOfProduct(
                      CScale(SQRT_TWO, create_phasor(float_var["voltage_rms"],
                                                     float_var["voltage_angle"])),
                      PhaseColumn[k])]

\* The last event was a write that runs Model.refresh in its write trace.
TracedWrite ==
    event.kind \in {"power_angle", "power_phasor", "convention"} \/ Dragged

\* C20: a recomputation attempted with voltage_rms = 0 fails with an error
\* of the division: the state count is not advanced, and current_rms and
\* every row of the waveform table keep the finite values they had, so that
\* no NaN and no infinite value is stored.
C20_ZeroVoltageRaises ==
    [][(TracedWrite' /\ float_var'["voltage_rms"] = 0) =>
          /\ Count("ZeroDivisionError")' = 1
          /\ ~Recomputed'
          /\ Count("current_rms")' = 0
          /\ Count("waveforms")' = 0
          /\ float_var'["current_rms"] = float_var["current_rms"]
          /\ waveforms' = waveforms
          /\ state_count' = state_count]_vars

\* power_angle is set while voltage_rms is 0.
C20_Witness ==
    /\ event.kind = "power_angle" /\ float_var["voltage_rms"] = 0
    /\ float_var["power_angle"] = 524 /\ before.float_var["power_angle"] = 0
    /\ Count("ZeroDivisionError") = 1
    /\ float_var["current_rms"] = Unit

\* The recomputation of the last event raised an error.
Raised == Count("ZeroDivisionError") > 0

\* C21: a recomputation that fails is atomic: after a drag whose
\* recomputation raises (voltage_rms = 0) every field of the state,
\* apparent_power, power_angle, the derived fields, the waveform table and
\* the state count included, has the value it had before that drag.
C21_FailedDragIsAtomic ==
    [][(Dragged' /\ Raised') =>
          /\ float_var' = float_var
          /\ str_var' = str_var
          /\ pf_sign_convention' = pf_sign_convention
          /\ waveforms' = waveforms
          /\ state_count' = state_count]_vars

\* C22: a drag to the exact origin (x = 0, y = 0) is an invalid interaction
\* that does not update the UI: the fields of the model, the state count and
\* what the views have drawn are after the event what they were before it,
\* and no error is raised.
C22_OriginDragIgnored ==
    [][(Dragged' /\ event'.x = 0 /\ event'.y = 0) =>
          /\ ~Raised'
          /\ float_var' = float_var
          /\ str_var' = str_var
          /\ waveforms' = waveforms
          /\ state_count' = state_count
          /\ transient_plot_objects' = transient_plot_objects]_vars

\* C23: setting the sign convention to a key other than EEI and IEC is a
\* domain error: the recomputation is rejected and power_factor is computed
\* with neither formula for that key.
C23_InvalidConventionRejected ==
    (event.kind = "convention" /\ event.sign_convention \notin Conventions) =>
        /\ ~Recomputed
        /\ Count("power_factor") = 0
        /\ state_count = before.state_count
        /\ float_var["power_factor"] = before.float_var["power_factor"]

\* C24: right after the construction of the model, the recomputation of its
\* constructor included, the state holds the defaults: voltage_rms = 1,
\* voltage_angle = 0, current_rms = 1, current_angle = 0, apparent_power = 1,
\* power_angle = 0, the convention EEI, cos_phi = 1, active_power = 1 and
\* reactive_power = 0.
C24_Defaults ==
    events = 0 =>
        /\ float_var["voltage_rms"] = Unit /\ float_var["voltage_angle"] = 0
        /\ float_var["current_rms"] = Unit /\ float_var["current_angle"] = 0
        /\ float_var["apparent_power"] = Unit /\ float_var["power_angle"] = 0
        /\ pf_sign_convention = "EEI"
        /\ float_var["cos_phi"] = Unit
        /\ float_var["active_power"] = Unit
        /\ float_var["reactive_power"] = 0

\* The state after the construction: the recomputation of the constructor
\* has advanced the state count and set the power factor of EEI at phi = 0.
C24_Witness ==
    /\ events = 0 /\ event.kind = "none"
    /\ state_count = 1
    /\ float_var["power_factor"] = 0
    /\ waveforms.voltage[1] = -SQRT_TWO

C27_ButtonHeld ==
    /\ ~button_held
    /\ [][/\ (event'.kind = "press" /\ event'.button = "LEFT") => button_held'
          /\ (event'.kind = "release" /\ event'.button = "LEFT") => ~button_held'
          /\ ~(event'.kind \in {"press", "release"} /\ event'.button = "LEFT")
                => button_held' = button_held]_vars

\* A press of the left button outside the axes sets the flag and nothing
\* else.
C27_Witness ==
    /\ event.kind = "press" /\ event.button = "LEFT" /\ ~event.inaxes
    /\ button_held /\ ~before.button_held
    /\ log = << >>

\* C28: no sequence of pointer events and sign convention selections writes
\* voltage_rms or voltage_angle: they are 1 and 0 in every reachable state of
\* the running application, and the division by voltage_rms never raises.
C28_VoltageFixed ==
    /\ float_var["voltage_rms"] = Unit
    /\ float_var["voltage_angle"] = 0
    /\ Count("voltage_rms") = 0 /\ Count("voltage_angle") = 0
    /\ ~Raised

\* A recomputation after a drag to the origin: apparent_power is 0 and the
\* voltage is what it was.
C28_Witness ==
    /\ events = 2 /\ event.kind = "convention" /\ Recomputed
    /\ float_var["apparent_power"] = 0 /\ float_var["current_rms"] = 0
    /\ float_var["voltage_rms"] = Unit

\* The writes of one recomputation and what it notifies, in order.
RecomputationChain ==
    << "current_rms", "current_angle", "cos_phi", "power_factor",
       "active_power", "reactive_power", "waveforms", "state_count",
       "view.refresh" >>

\* C29: one input event (a drag or a sign convention selection) starts a
\* finite chain of notifications and no more: the write of the input, one
\* recomputation of the model, one write of the state count and one refresh
\* of the views.  No handler of the chain writes a variable whose trace
\* starts another recomputation.
C29_NotificationChainEnds ==
    /\ Dragged => log = << "apparent_power", "power_angle" >> \o RecomputationChain
    /\ event.kind = "convention" =>
          log = << "pf_sign_convention" >> \o RecomputationChain
    /\ (Dragged \/ event.kind = "convention") =>
          \A view \in Views : refreshed[view] = 1

\* A move with the button held that changes the power angle.
C29_Witness ==
    /\ event.kind = "motion" /\ Dragged
    /\ Len(log) = 11 /\ log[11] = "view.refresh"
    /\ float_var["power_angle"] # before.float_var["power_angle"]

\* The last event of the standalone program made its handler call
\* _recalculate_phi with a point inside the axes.
StandaloneDragged ==
    /\ event.inaxes
    /\ \/ event.kind = "press" /\ event.button = "LEFT"
       \/ event.kind = "motion" /\ before.button_held

\* C25: in the standalone program, once a handler that called
\* _recalculate_phi has returned, the quadrant plot and the waveform plot are
\* the ones a redraw from the present phi, voltage and current gives, and so
\* agree with the readout, which is the one computed from the present state.
C25_PlotsInSyncAfterDrag ==
    StandaloneDragged =>
        /\ power_quadrants_gui.quadrant_plot
               = QuadrantViewerRefresh(power_quadrants_gui).quadrant_plot
        /\ power_quadrants_gui.waveform_plot
               = WaveformViewerRefresh(power_quadrants_gui).waveform_plot
        /\ power_quadrants_gui.readout
               = _calculate_variables(power_quadrants_gui).readout

\* C30: in the options pane no pair of quadrant attributes ever has both
\* variables true, and a click toggles its own variable, sets the other one
\* of the pair to false when its own becomes true and leaves it alone
\* otherwise, and changes no variable of another pair.
C30_AtMostOneOfEachPair ==
    /\ [](\A j \in 1..4 :
            ~ /\ power_quadrants_gui.attributes[quadrant_attributes[j][1]]
              /\ power_quadrants_gui.attributes[quadrant_attributes[j][2]])
    /\ [][\A var \in AttributeNames :
            event'.kind = "click" /\ event'.button = var =>
                /\ power_quadrants_gui'.attributes[var]
                       = ~power_quadrants_gui.attributes[var]
                /\ power_quadrants_gui'.attributes[var_not_clicked(var)]
                       = IF power_quadrants_gui'.attributes[var]
                         THEN FALSE
                         ELSE power_quadrants_gui.attributes[var_not_clicked(var)]
                /\ \A other \in AttributeNames \ {var, var_not_clicked(var)} :
                       power_quadrants_gui'.attributes[other]
                           = power_quadrants_gui.attributes[other]]_vars

\* A click that made its variable true while the other one of the pair was
\* true, which is now false, with a variable of another pair still true.
C30_Witness ==
    /\ event.kind = "click"
    /\ before.attributes[var_not_clicked(event.button)]
    /\ power_quadrants_gui.attributes[event.button]
    /\ ~power_quadrants_gui.attributes[var_not_clicked(event.button)]
    /\ \E other \in AttributeNames \ {event.button, var_not_clicked(event.button)} :
           power_quadrants_gui.attributes[other]

====
